---- MODULE Spec2Model ----
(***************************************************************************)
(* A model of the playlist-comparison pipeline of app.py and               *)
(* yandex_service.py: URL parsing, the retry decorator, the two playlist   *)
(* retrieval paths, track normalisation and process_playlists_async with   *)
(* its two concurrent fetch tasks.                                         *)
(*                                                                         *)
(* Text is a sequence of code points, so that str.lower() and the string   *)
(* comparison of list.sort are computed and not assumed.  A Python value   *)
(* is a record tagged by k: "missing" stands for an attribute the object   *)
(* does not have (hasattr is False), "none" for the value None.            *)
(***************************************************************************)
EXTENDS Integers, Sequences, FiniteSets, TLC

\* ------------------------------------------------------------------ bounds
MaxTracks == 2        \* longest track sequence a remote playlist returns
MaxN == 3             \* largest max_retries tried on the generic wrapper
MaxDelay == 3         \* largest delay tried on the generic wrapper
MaxUrlLen == 5        \* longest tokenised URL handed to the parser alone
MaxRequests == 2      \* comparison requests served one after the other

\* ------------------------------------------------------- program constants
GetTracksMaxRetries == 3
GetTracksDelay == 1
UuidCacheSize == 50

\* ------------------------------------------------------------ Python values
Missing == [k |-> "missing"]
NoneV == [k |-> "none"]
IntV(n) == [k |-> "int", v |-> n]
StrV(s) == [k |-> "str", v |-> s]
ListV(s) == [k |-> "list", v |-> s]
ObjV(o) == [k |-> "obj", v |-> o]

\* hasattr(obj, name), given the attribute's value
HasAttr(x) == x # Missing

\* bool(x) of an attribute that is there
Truthy(x) ==
    CASE x.k = "none" -> FALSE
      [] x.k = "int" -> x.v # 0
      [] x.k = "str" -> x.v # <<>>
      [] x.k = "list" -> x.v # <<>>
      [] OTHER -> TRUE

RECURSIVE Digits(_)
Digits(n) == IF n < 10 THEN <<48 + n>> ELSE Digits(n \div 10) \o <<48 + (n % 10)>>

\* str(x) of an int or a str
Str(x) == IF x.k = "int" THEN Digits(x.v) ELSE x.v

\* the text of the two fallback literals of get_track_info
UnknownTrack ==
    <<1053, 1077, 1080, 1079, 1074, 1077, 1089, 1090, 1085, 1099, 1081, 32,
      1090, 1088, 1077, 1082>>
UnknownArtist ==
    <<1053, 1077, 1080, 1079, 1074, 1077, 1089, 1090, 1085, 1099, 1081, 32,
      1080, 1089, 1087, 1086, 1083, 1085, 1080, 1090, 1077, 1083, 1100>>

\* the absent result of get_track_id and get_track_info
Absent == [k |-> "none"]
\* an exception escaping an expression
Raised == [k |-> "raised"]

\* ---------------------------------------------------------- get_track_id
GetTrackId(track) ==
    IF HasAttr(track.id) /\ Truthy(track.id) THEN StrV(Str(track.id))
    ELSE IF HasAttr(track.track_id) /\ Truthy(track.track_id)
         THEN StrV(Str(track.track_id))
    ELSE Absent

\* -------------------------------------------------------- get_track_info
\* track.fetch_track(): the full track, or the entry itself when it raises
\* or when the entry has no such capability
FetchFull(track) ==
    IF HasAttr(track.fetch_track) /\ track.fetch_track.k = "returns"
    THEN track.fetch_track.v
    ELSE track

\* getattr(obj, 'title', <fallback literal>)
GetAttrTitle(obj) == IF HasAttr(obj.title) THEN obj.title ELSE StrV(UnknownTrack)

ResolveTitle(track) ==
    LET title == GetAttrTitle(track)
    IN  IF title = StrV(UnknownTrack) /\ HasAttr(track.track) /\ Truthy(track.track)
        THEN GetAttrTitle(track.track.v)
        ELSE title

\* [artist.name for artist in xs if hasattr(artist, 'name')]
RECURSIVE NamesOf(_)
NamesOf(s) ==
    IF s = <<>> THEN <<>>
    ELSE IF HasAttr(Head(s).name) THEN <<Head(s).name>> \o NamesOf(Tail(s))
         ELSE NamesOf(Tail(s))

\* iterating anything but a list raises TypeError
ArtistNames(xs) == IF xs.k = "list" THEN ListV(NamesOf(xs.v)) ELSE Raised

ResolveArtists(track) ==
    IF HasAttr(track.artists) /\ Truthy(track.artists) THEN ArtistNames(track.artists)
    ELSE IF HasAttr(track.artists_name) /\ Truthy(track.artists_name)
         THEN track.artists_name
    ELSE IF HasAttr(track.track) /\ Truthy(track.track) /\ HasAttr(track.track.v.artists)
         THEN ArtistNames(track.track.v.artists)
    ELSE ListV(<<>>)

\* ', '.join(names): every item has to be a str
RECURSIVE JoinNames(_)
JoinNames(names) ==
    IF Len(names) = 1 THEN Head(names).v
    ELSE Head(names).v \o <<44, 32>> \o JoinNames(Tail(names))

\* artists_str = ', '.join(artists) if artists else <fallback literal>
ArtistsStr(artists) ==
    IF artists = Raised THEN Raised
    ELSE IF artists.v = <<>> THEN StrV(UnknownArtist)
    ELSE IF \E i \in 1..Len(artists.v) : artists.v[i].k # "str" THEN Raised
    ELSE StrV(JoinNames(artists.v))

\* xs[0] followed by getattr(album, 'id', None)
FirstAlbumId(xs) ==
    IF xs.k # "list" THEN Raised
    ELSE IF HasAttr(Head(xs.v).id) THEN Head(xs.v).id ELSE NoneV

ResolveAlbumId(track) ==
    IF HasAttr(track.albums) /\ Truthy(track.albums) THEN FirstAlbumId(track.albums)
    ELSE IF HasAttr(track.album_id) /\ Truthy(track.album_id) THEN track.album_id
    ELSE IF HasAttr(track.track) /\ Truthy(track.track)
            /\ HasAttr(track.track.v.albums) /\ Truthy(track.track.v.albums)
         THEN FirstAlbumId(track.track.v.albums)
    ELSE NoneV

TrackUrl(album_id, track_id) ==
    IF Truthy(album_id) THEN <<"album", Str(album_id), "track", track_id>>
    ELSE <<"track", track_id>>

GetTrackInfo(entry) ==
    LET track_id == GetTrackId(entry)
    IN  IF track_id = Absent THEN Absent
        ELSE LET track == FetchFull(entry)
                 title == ResolveTitle(track)
                 artists_str == ArtistsStr(ResolveArtists(track))
                 album_id == ResolveAlbumId(track)
             IN  IF artists_str = Raised \/ album_id = Raised THEN Absent
                 ELSE [id |-> track_id.v, title |-> title, artists |-> artists_str.v,
                       url |-> TrackUrl(album_id, track_id.v)]

\* ------------------------------------------------------- sorting by title
LowerChar(c) ==
    IF (c >= 65 /\ c <= 90) \/ (c >= 1040 /\ c <= 1071) THEN c + 32 ELSE c

\* str.lower()
Lower(s) == [i \in 1..Len(s) |-> LowerChar(s[i])]

\* a < b for two str
RECURSIVE StrLess(_, _)
StrLess(a, b) ==
    IF b = <<>> THEN FALSE
    ELSE IF a = <<>> THEN TRUE
    ELSE IF Head(a) # Head(b) THEN Head(a) < Head(b)
    ELSE StrLess(Tail(a), Tail(b))

\* a sort key that keeps the case of the title
SortKeyCaseSensitive(info) == info.title.v

\* lambda x: x['title'].lower()
SortKey(info) == Lower(info.title.v)

\* insert x behind every element whose key is not greater: the sort is stable
RECURSIVE InsertByKey(_, _)
InsertByKey(sorted, x) ==
    IF sorted = <<>> THEN <<x>>
    ELSE IF StrLess(SortKey(x), SortKey(Head(sorted))) THEN <<x>> \o sorted
    ELSE <<Head(sorted)>> \o InsertByKey(Tail(sorted), x)

RECURSIVE SortByTitle(_)
SortByTitle(infos) ==
    IF infos = <<>> THEN <<>>
    ELSE InsertByKey(SortByTitle(SubSeq(infos, 1, Len(infos) - 1)), infos[Len(infos)])

\* the key function raises AttributeError on a title that is no str
SortRaises(infos) == \E i \in 1..Len(infos) : infos[i].title.k # "str"

\* ------------------------------------------------------------- lru_cache
\* A cache is a sequence of [key, value] in order of use, the least recently
\* used entry first.
CacheHas(cache, key) == \E i \in 1..Len(cache) : cache[i].key = key

CacheIndex(cache, key) == CHOOSE i \in 1..Len(cache) : cache[i].key = key

CacheValue(cache, key) == cache[CacheIndex(cache, key)].value

\* a hit moves the entry to the most recently used end
CacheTouch(cache, key) ==
    LET i == CacheIndex(cache, key)
    IN  SubSeq(cache, 1, i - 1) \o SubSeq(cache, i + 1, Len(cache)) \o <<cache[i]>>

\* a computed result is stored unless another caller stored the key meanwhile;
\* a full cache drops its least recently used entry
CachePut(cache, key, value, maxsize) ==
    IF CacheHas(cache, key) THEN cache
    ELSE IF Len(cache) >= maxsize THEN Append(Tail(cache), [key |-> key, value |-> value])
    ELSE Append(cache, [key |-> key, value |-> value])

\* ------------------------------------------------- parse_playlist_url_cached
\* A URL is a sequence of tokens: "H" is the text music.yandex.ru, "SP" is
\* /playlists/, "SU" is /users/, and "/", "?", "a" (a letter), "1" (a digit)
\* are single characters.
UrlTokens == {"H", "SP", "SU", "/", "?", "a", "1"}

HasSlash(tok) == tok \in {"/", "SP", "SU"}
IsDigit(tok) == tok = "1"

\* [^/?]
UuidChar(tok) == ~HasSlash(tok) /\ tok # "?"
\* [^/]
UserChar(tok) == ~HasSlash(tok)

\* the last index of the longest run from i of tokens of a class (i - 1: none)
RECURSIVE UuidRunEnd(_, _)
UuidRunEnd(url, i) ==
    IF i <= Len(url) /\ UuidChar(url[i]) THEN UuidRunEnd(url, i + 1) ELSE i - 1
RECURSIVE UserRunEnd(_, _)
UserRunEnd(url, i) ==
    IF i <= Len(url) /\ UserChar(url[i]) THEN UserRunEnd(url, i + 1) ELSE i - 1
RECURSIVE DigitRunEnd(_, _)
DigitRunEnd(url, i) ==
    IF i <= Len(url) /\ IsDigit(url[i]) THEN DigitRunEnd(url, i + 1) ELSE i - 1

\* re.search(r'music\.yandex\.ru/playlists/([^/?]+)', url): where it matches
UuidMatches(url) ==
    {i \in 1..Len(url) :
        /\ i + 2 <= Len(url)
        /\ url[i] = "H" /\ url[i + 1] = "SP"
        /\ UuidChar(url[i + 2])}

\* re.search(r'music\.yandex\.ru/users/([^/]+)/playlists/(\d+)', url)
UserMatches(url) ==
    {i \in 1..Len(url) :
        /\ i + 2 <= Len(url)
        /\ url[i] = "H" /\ url[i + 1] = "SU"
        /\ UserChar(url[i + 2])
        /\ LET j == UserRunEnd(url, i + 2)
           IN  j + 2 <= Len(url) /\ url[j + 1] = "SP" /\ IsDigit(url[j + 2])}

Leftmost(S) == CHOOSE i \in S : \A j \in S : i <= j

InvalidFormat == [type |-> "ValueError", msg |-> "invalid playlist link format"]

\* the body of parse_playlist_url_cached: the uuid pattern is tried first
ParsePlaylistUrl(url) ==
    IF UuidMatches(url) # {}
    THEN LET i == Leftmost(UuidMatches(url))
         IN  [type |-> "uuid", uuid |-> SubSeq(url, i + 2, UuidRunEnd(url, i + 2))]
    ELSE IF UserMatches(url) # {}
    THEN LET i == Leftmost(UserMatches(url))
             j == UserRunEnd(url, i + 2)
         IN  [type |-> "user_kind", user |-> SubSeq(url, i + 2, j),
              kind |-> SubSeq(url, j + 2, DigitRunEnd(url, j + 2))]
    ELSE InvalidFormat

ParseCacheSize == 100

\* one call through lru_cache: the value returned (or the exception raised)
ParseResult(cache, url) ==
    IF CacheHas(cache, url) THEN CacheValue(cache, url) ELSE ParsePlaylistUrl(url)

\* the cache after that call: an exception is not stored
ParseCacheAfter(cache, url) ==
    IF CacheHas(cache, url) THEN CacheTouch(cache, url)
    ELSE IF ParsePlaylistUrl(url).type = "ValueError" THEN cache
    ELSE CachePut(cache, url, ParsePlaylistUrl(url), ParseCacheSize)

\* ----------------------------------------------------------- retry_on_error
\* a loop that gives up one attempt early
IsLastAttemptOneEarly(attempt, max_retries) == attempt >= max_retries - 2

\* attempt == max_retries - 1: the exception is re-raised
IsLastAttempt(attempt, max_retries) == attempt = max_retries - 1

\* a backoff counted from zero
SleepTimeZeroBased(delay, attempt) == delay * attempt

\* time.sleep(delay * (attempt + 1))
SleepTime(delay, attempt) == delay * (attempt + 1)

\* ------------------------------------------------------------ exceptions
Exc(type, msg) == [type |-> type, msg |-> msg]

\* the classes derived from Exception that the modelled code raises
ExceptionClasses ==
    {"ValueError", "TypeError", "AttributeError", "IndexError", "NetworkError"}

\* a handler written as except ValueError
CatchesValueErrorOnly(exc) == exc.type = "ValueError"

\* except Exception as e (process_playlists_async)
Catches(exc) == exc.type \in ExceptionClasses

Unset == [k |-> "unset"]
RaisesV == [k |-> "raises"]
OkV == [k |-> "ok"]

\* --------------------------------------------------- the remote catalogue
BaseEntry ==
    [id |-> Missing, track_id |-> Missing, fetch_track |-> Missing, title |-> Missing,
     track |-> Missing, artists |-> Missing, artists_name |-> Missing,
     albums |-> Missing, album_id |-> Missing]

Banana == <<66, 97, 110, 97, 110, 97>>
Apple == <<97, 112, 112, 108, 101>>
Cherry == <<67, 104, 101, 114, 114, 121>>

\* a full track: id 5, "Banana", one artist, one album
TrackBanana ==
    [BaseEntry EXCEPT !.id = IntV(5), !.title = StrV(Banana),
                      !.artists = ListV(<<[name |-> StrV(<<65>>)]>>),
                      !.albums = ListV(<<[id |-> IntV(7)]>>)]
\* a full track: id "9", "apple", a flat list of artist names
TrackApple ==
    [BaseEntry EXCEPT !.id = StrV(<<57>>), !.title = StrV(Apple),
                      !.artists_name = ListV(<<StrV(<<98>>)>>)]
\* a short entry naming track 5: no title of its own, a nested track whose
\* title is None, and a fetch of the full track that fails
ShortFive ==
    [BaseEntry EXCEPT !.id = NoneV, !.track_id = StrV(<<53>>), !.fetch_track = RaisesV,
                      !.track = ObjV([title |-> NoneV, artists |-> Missing,
                                      albums |-> Missing])]
\* an entry with an identifier and nothing else
BareTwo == [BaseEntry EXCEPT !.id = IntV(2)]
\* track 9 again, with an artists attribute that cannot be iterated
BadNine == [BaseEntry EXCEPT !.id = IntV(9), !.title = StrV(Cherry), !.artists = IntV(1)]

\* A track sequence holds references to the objects of the catalogue.
\* client.tracks returns full tracks; the tracks of a playlist object may be
\* entries of any shape.
FullTracks == {"TrackBanana", "TrackApple"}
Catalogue == FullTracks \cup {"ShortFive", "BareTwo", "BadNine"}

Entry(ref) ==
    CASE ref = "TrackBanana" -> TrackBanana
      [] ref = "TrackApple" -> TrackApple
      [] ref = "ShortFive" -> ShortFive
      [] ref = "BareTwo" -> BareTwo
      [] ref = "BadNine" -> BadNine

SeqsUpTo(S, n) == UNION {[1..m -> S] : m \in 0..n}

\* the track sequences a playlist object may hold, and those a lookup returns
TrackLists == SeqsUpTo(Catalogue, MaxTracks)
LookupLists == SeqsUpTo(FullTracks, MaxTracks)

\* the sequences used where several requests follow each other
FewLists == {<<>>, <<"TrackBanana">>}

\* client.users_playlists(playlist_id, user): it raises, or returns None, a
\* list, or a playlist object that may lack tracks and fetch_tracks
OwnerResponses(lists) ==
    {RaisesV, NoneV, ListV(<<>>), ListV(<<NoneV>>)}
    \cup {ObjV([tracks |-> tr, fetch_tracks |-> OkV]) :
            tr \in {Missing, NoneV} \cup {ListV(l) : l \in lists}}
    \cup {ObjV([tracks |-> ListV(<<>>), fetch_tracks |-> ft]) : ft \in {Missing, RaisesV}}
    \cup {ListV(<<ObjV([tracks |-> ListV(l), fetch_tracks |-> OkV])>>) :
            l \in {m \in lists : Len(m) <= 1}}

\* requests.get(...): it raises, or answers with a status and, on 200, the ids
\* found under result.tracks[].track.id
HttpResponses ==
    {RaisesV, [k |-> "status", code |-> 404, ids |-> <<>>]}
    \cup {[k |-> "status", code |-> 200, ids |-> ids] :
            ids \in {<<>>, <<NoneV>>, <<IntV(5)>>}}

\* client.tracks(track_ids)
BatchResponses(lists) == {RaisesV} \cup {ListV(l) : l \in lists}

\* ---------------------------------------------------------------- get_tracks
Return(v) == [k |-> "return", v |-> v]
Raise(exc) == [k |-> "raise", exc |-> exc]

\* if not playlist or not hasattr(playlist, 'tracks')
NoTracks(playlist) == ~Truthy(playlist) \/ ~HasAttr(playlist.v.tracks)

\* one invocation of the body of get_tracks on what users_playlists did
GetTracksBody(resp) ==
    IF resp = RaisesV THEN Raise(Exc("ValueError", "get_tracks: request failed"))
    ELSE IF resp.k = "list" /\ resp.v = <<>>
         THEN Raise(Exc("ValueError", "get_tracks: list index out of range"))
    ELSE LET playlist == IF resp.k = "list" THEN resp.v[1] ELSE resp
         IN  IF NoTracks(playlist)
             THEN Raise(Exc("ValueError", "get_tracks: playlist not found or has no tracks"))
             ELSE IF playlist.v.fetch_tracks = RaisesV
             THEN Raise(Exc("ValueError", "get_tracks: fetch_tracks failed"))
             ELSE Return(playlist.v.tracks)

\* -------------------------------------------------------- get_tracks_by_uuid
RECURSIVE TruthyIds(_)
TruthyIds(ids) ==
    IF ids = <<>> THEN <<>>
    ELSE IF HasAttr(Head(ids)) /\ Truthy(Head(ids)) THEN <<Head(ids)>> \o TruthyIds(Tail(ids))
    ELSE TruthyIds(Tail(ids))

\* whether the body gets as far as requests.get
IssuesGet(token) == Truthy(token)

\* whether it gets as far as client.tracks
IssuesLookup(token, http) ==
    Truthy(token) /\ http # RaisesV /\ http.code = 200 /\ TruthyIds(http.ids) # <<>>

\* one invocation of the body of get_tracks_by_uuid
GetTracksByUuidBody(token, http, batch) ==
    IF ~Truthy(token) THEN Raise(Exc("ValueError", "by_uuid: token is not set"))
    ELSE IF http = RaisesV THEN Raise(Exc("ValueError", "by_uuid: request failed"))
    ELSE IF http.code # 200 THEN Raise(Exc("ValueError", "by_uuid: bad status"))
    ELSE IF TruthyIds(http.ids) = <<>> THEN Return(ListV(<<>>))
    ELSE IF batch = RaisesV THEN Raise(Exc("ValueError", "by_uuid: tracks lookup failed"))
    ELSE Return(batch)

\* ------------------------------------------------------------ process_playlist
TrackIds(l) ==
    {GetTrackId(Entry(l[i])).v :
        i \in {j \in 1..Len(l) : GetTrackId(Entry(l[j])) # Absent}}

LastWith(l, key) ==
    CHOOSE i \in 1..Len(l) :
        /\ GetTrackId(Entry(l[i])) = StrV(key)
        /\ \A j \in 1..Len(l) : GetTrackId(Entry(l[j])) = StrV(key) => j <= i

\* tracks_dict[track_id] = track, a later entry replacing an earlier one
TracksDict(l) == [key \in TrackIds(l) |-> l[LastWith(l, key)]]

\* the loop over tracks: None cannot be iterated
BuildDict(tracks) ==
    IF tracks.k # "list" THEN Raise(Exc("TypeError", "object is not iterable"))
    ELSE Return(TracksDict(tracks.v))

\* ----------------------------------------------------- process_playlists_async
\* set(tracks1_dict.keys()) & set(tracks2_dict.keys())
CommonIds(tracks1_dict, tracks2_dict) == DOMAIN tracks1_dict \cap DOMAIN tracks2_dict

\* the orders in which a set may be iterated
Orders(S) ==
    {o \in [1..Cardinality(S) -> S] :
        \A i, j \in 1..Cardinality(S) : i # j => o[i] # o[j]}

\* for track_id in common_ids: info = get_track_info(tracks1_dict[track_id])
RECURSIVE CommonInfos(_, _)
CommonInfos(order, tracks1_dict) ==
    IF order = <<>> THEN <<>>
    ELSE LET info == GetTrackInfo(Entry(tracks1_dict[Head(order)]))
         IN  IF info # Absent THEN <<info>> \o CommonInfos(Tail(order), tracks1_dict)
             ELSE CommonInfos(Tail(order), tracks1_dict)

\* ----------------------------------------------------------------- state
VARIABLES
    req,            \* requests begun; the service instance of a request is its number
    pc,             \* process_playlists_async: idle, running, raising, returned, propagated
    url1, url2,     \* its arguments
    playlist_info,  \* the two parsed references
    tstate,         \* each submitted task: ready, miss, done, failed
    calls,          \* invocations of the fetch body each task has made
    sleeps,         \* the sleeps of each task's retry loop
    fetched,        \* what the fetch returned: unset, none, empty, nonempty
    tracks_dict,    \* what process_playlist returned
    texc,           \* the exception a task ended with
    late,           \* the task looked its uuid up when an entry for it was cached
    issued,         \* the task has issued the HTTP GET
    early,          \* an exception reached the with block while a task was still running
    results,        \* the tasks whose results as_completed has handed over, in order
    pending,        \* the exception raised inside the with block
    result,         \* the value returned
    parse_cache,    \* lru_cache of parse_playlist_url_cached
    uuid_cache,     \* lru_cache of get_tracks_by_uuid
    oauth_token,    \* os.environ.get('YANDEX_OAUTH_TOKEN')
    r_max, r_delay, \* retry_on_error alone: its parameters,
    r_attempt,      \*   the loop variable,
    r_trace,        \*   what each invocation of the wrapped callable did,
    r_sleeps,       \*   the sleeps made,
    r_out,          \*   and how the wrapper ended
    p_url,          \* parse_playlist_url_cached alone: the argument
    p_results       \*   and the results of the calls made so far

mainVars ==
    <<req, pc, url1, url2, playlist_info, tstate, calls, sleeps, fetched, tracks_dict,
      texc, late, issued, early, results, pending, result, parse_cache, uuid_cache, oauth_token>>
retryVars == <<r_max, r_delay, r_attempt, r_trace, r_sleeps, r_out>>
parseVars == <<p_url, p_results>>
vars == <<mainVars, retryVars, parseVars>>

Tasks == {1, 2}

\* the URLs given to process_playlists_async
UrlUuid == <<"H", "SP", "a">>
UrlOwner == <<"H", "SU", "a", "SP", "1">>
UrlBad == <<"a">>
RequestUrls == {UrlUuid, UrlOwner, UrlBad}

Init ==
    /\ req = 0
    /\ pc = "idle"
    /\ url1 = <<>> /\ url2 = <<>>
    /\ playlist_info = [t \in Tasks |-> Unset]
    /\ tstate = [t \in Tasks |-> "none"]
    /\ calls = [t \in Tasks |-> 0]
    /\ sleeps = [t \in Tasks |-> <<>>]
    /\ fetched = [t \in Tasks |-> "unset"]
    /\ tracks_dict = [t \in Tasks |-> Unset]
    /\ texc = [t \in Tasks |-> Unset]
    /\ late = [t \in Tasks |-> FALSE]
    /\ issued = [t \in Tasks |-> FALSE]
    /\ early = FALSE
    /\ results = <<>>
    /\ pending = Unset
    /\ result = Unset
    /\ parse_cache = <<>>
    /\ uuid_cache = <<>>
    /\ oauth_token \in {NoneV, StrV(<<116>>)}
    /\ r_max = 0 /\ r_delay = 0 /\ r_attempt = 0
    /\ r_trace = <<>> /\ r_sleeps = <<>> /\ r_out = Unset
    /\ p_url = <<>> /\ p_results = <<>>

\* -------------------------------------------- process_playlists_async: start
\* return {'common_tracks': [], 'error': error_msg} in the handler, or the
\* exception leaving the function when the handler does not catch it
Handled(exc) ==
    IF Catches(exc)
    THEN /\ pc' = "returned"
         /\ result' = [common_tracks |-> <<>>, error |-> StrV(exc.msg)]
    ELSE /\ pc' = "propagated"
         /\ result' = Unset

ResetTasks(state) ==
    /\ tstate' = [t \in Tasks |-> state]
    /\ calls' = [t \in Tasks |-> 0]
    /\ sleeps' = [t \in Tasks |-> <<>>]
    /\ fetched' = [t \in Tasks |-> "unset"]
    /\ tracks_dict' = [t \in Tasks |-> Unset]
    /\ texc' = [t \in Tasks |-> Unset]
    /\ late' = [t \in Tasks |-> FALSE]
    /\ issued' = [t \in Tasks |-> FALSE]
    /\ early' = FALSE
    /\ results' = <<>>
    /\ pending' = Unset

\* YandexMusicService(), the two parses and the two submits
Begin(u1, u2, init_ok, limit) ==
    /\ pc \in {"idle", "returned"}
    /\ req < limit
    /\ req' = req + 1
    /\ url1' = u1 /\ url2' = u2
    /\ LET info1 == ParseResult(parse_cache, u1)
           cache1 == ParseCacheAfter(parse_cache, u1)
           info2 == ParseResult(cache1, u2)
           cache2 == ParseCacheAfter(cache1, u2)
       IN  IF ~init_ok
           THEN /\ Handled(Exc("NetworkError", "client init failed"))
                /\ ResetTasks("none")
                /\ playlist_info' = [t \in Tasks |-> Unset]
                /\ UNCHANGED parse_cache
           ELSE IF info1.type = "ValueError"
           THEN /\ Handled(info1)
                /\ ResetTasks("none")
                /\ playlist_info' = [t \in Tasks |-> Unset]
                /\ parse_cache' = cache1
           ELSE IF info2.type = "ValueError"
           THEN /\ Handled(info2)
                /\ ResetTasks("none")
                /\ playlist_info' = [t \in Tasks |-> Unset]
                /\ parse_cache' = cache2
           ELSE /\ pc' = "running"
                /\ result' = Unset
                /\ ResetTasks("ready")
                /\ playlist_info' = <<info1, info2>>
                /\ parse_cache' = cache2
    /\ UNCHANGED <<uuid_cache, oauth_token, retryVars, parseVars>>

\* ------------------------------------------------ process_playlist: the tasks
\* what kind of value the fetch handed to the loop
KindOf(tracks) ==
    IF tracks.k # "list" THEN "none"
    ELSE IF tracks.v = <<>> THEN "empty"
    ELSE "nonempty"

\* the task ends with the dictionary, or with the exception of the loop
Finished(t, tracks) ==
    LET built == BuildDict(tracks)
    IN  /\ fetched' = [fetched EXCEPT ![t] = KindOf(tracks)]
        /\ IF built.k = "return"
           THEN /\ tstate' = [tstate EXCEPT ![t] = "done"]
                /\ tracks_dict' = [tracks_dict EXCEPT ![t] = built.v]
                /\ UNCHANGED texc
           ELSE /\ tstate' = [tstate EXCEPT ![t] = "failed"]
                /\ texc' = [texc EXCEPT ![t] = built.exc]
                /\ UNCHANGED tracks_dict

Failed(t, exc) ==
    /\ tstate' = [tstate EXCEPT ![t] = "failed"]
    /\ texc' = [texc EXCEPT ![t] = exc]
    /\ UNCHANGED <<fetched, tracks_dict>>

\* service.get_tracks(user, kind): one pass of the loop of retry_on_error
OwnerAttempt(t, resp) ==
    /\ pc \in {"running", "raising"}
    /\ tstate[t] = "ready"
    /\ playlist_info[t].type = "user_kind"
    /\ calls' = [calls EXCEPT ![t] = @ + 1]
    /\ LET out == GetTracksBody(resp)
       IN  IF out.k = "return"
           THEN /\ Finished(t, out.v)
                /\ UNCHANGED sleeps
           ELSE IF IsLastAttempt(calls[t], GetTracksMaxRetries)
           THEN /\ Failed(t, out.exc)
                /\ UNCHANGED sleeps
           ELSE /\ sleeps' = [sleeps EXCEPT
                                ![t] = Append(@, SleepTime(GetTracksDelay, calls[t]))]
                /\ UNCHANGED <<tstate, fetched, tracks_dict, texc>>
    /\ UNCHANGED <<req, pc, url1, url2, playlist_info, late, issued, early, results, pending,
                   result, parse_cache, uuid_cache, oauth_token, retryVars, parseVars>>

\* the key lru_cache makes of the arguments (self, playlist_uuid)
UuidKey(t) == <<req, playlist_info[t].uuid>>

\* an entry for the playlist identifier is in the cache, whatever the instance
UuidCached(uuid) == \E i \in 1..Len(uuid_cache) : uuid_cache[i].key[2] = uuid

\* service.get_tracks_by_uuid(uuid): the lookup lru_cache makes
UuidLookup(t) ==
    /\ pc \in {"running", "raising"}
    /\ tstate[t] = "ready"
    /\ playlist_info[t].type = "uuid"
    /\ late' = [late EXCEPT ![t] = UuidCached(playlist_info[t].uuid)]
    /\ IF CacheHas(uuid_cache, UuidKey(t))
       THEN /\ Finished(t, CacheValue(uuid_cache, UuidKey(t)))
            /\ uuid_cache' = CacheTouch(uuid_cache, UuidKey(t))
       ELSE /\ tstate' = [tstate EXCEPT ![t] = "miss"]
            /\ UNCHANGED <<uuid_cache, fetched, tracks_dict, texc>>
    /\ UNCHANGED <<req, pc, url1, url2, playlist_info, calls, sleeps, issued, early, results,
                   pending, result, parse_cache, oauth_token, retryVars, parseVars>>

\* the call of the body after a miss, and the store of what it returned
UuidCall(t, http, batch) ==
    /\ pc \in {"running", "raising"}
    /\ tstate[t] = "miss"
    /\ IssuesLookup(oauth_token, http) \/ batch = RaisesV
    /\ calls' = [calls EXCEPT ![t] = @ + 1]
    /\ issued' = [issued EXCEPT ![t] = IssuesGet(oauth_token)]
    /\ LET out == GetTracksByUuidBody(oauth_token, http, batch)
       IN  IF out.k = "return"
           THEN /\ Finished(t, out.v)
                /\ uuid_cache' = CachePut(uuid_cache, UuidKey(t), out.v, UuidCacheSize)
           ELSE /\ Failed(t, out.exc)
                /\ UNCHANGED uuid_cache
    /\ UNCHANGED <<req, pc, url1, url2, playlist_info, sleeps, late, early, results, pending,
                   result, parse_cache, oauth_token, retryVars, parseVars>>

\* ------------------------------------- process_playlists_async: the with block
\* for future in as_completed(futures): results.append(future.result())
Collect(t) ==
    /\ pc = "running"
    /\ tstate[t] \in {"done", "failed"}
    /\ \A i \in 1..Len(results) : results[i] # t
    /\ IF tstate[t] = "done"
       THEN /\ results' = Append(results, t)
            /\ UNCHANGED <<pc, pending>>
            /\ UNCHANGED early
       ELSE /\ pc' = "raising"
            /\ pending' = texc[t]
            /\ early' = (\E u \in Tasks : tstate[u] \notin {"done", "failed"})
            /\ UNCHANGED results
    /\ UNCHANGED <<req, url1, url2, playlist_info, tstate, calls, sleeps, fetched,
                   tracks_dict, texc, late, issued, result, parse_cache, uuid_cache,
                   oauth_token, retryVars, parseVars>>

\* a pool left with shutdown(wait=False)
ShutdownNoWait == TRUE

\* leaving the with block: ThreadPoolExecutor.__exit__ is shutdown(wait=True)
ShutdownWait == \A t \in Tasks : tstate[t] \in {"done", "failed"}

\* the exception of a task leaves the with block and reaches the handler
ReturnError ==
    /\ pc = "raising"
    /\ ShutdownWait
    /\ Handled(pending)
    /\ UNCHANGED <<req, url1, url2, playlist_info, tstate, calls, sleeps, fetched,
                   tracks_dict, texc, late, issued, early, results, pending, parse_cache,
                   uuid_cache, oauth_token, retryVars, parseVars>>

\* tracks1_dict, tracks2_dict = results, and all that follows
Compare(order) ==
    /\ pc = "running"
    /\ Len(results) = 2
    /\ ShutdownWait
    /\ LET tracks1_dict == tracks_dict[results[1]]
           tracks2_dict == tracks_dict[results[2]]
           common_tracks == CommonInfos(order, tracks1_dict)
       IN  /\ order \in Orders(CommonIds(tracks1_dict, tracks2_dict))
           /\ IF SortRaises(common_tracks)
              THEN Handled(Exc("AttributeError", "object has no attribute lower"))
              ELSE /\ pc' = "returned"
                   /\ result' = [common_tracks |-> SortByTitle(common_tracks),
                                 error |-> NoneV]
    /\ UNCHANGED <<req, url1, url2, playlist_info, tstate, calls, sleeps, fetched,
                   tracks_dict, texc, late, issued, early, results, pending, parse_cache,
                   uuid_cache, oauth_token, retryVars, parseVars>>

\* every order in which some set of identifiers may be iterated
AllOrders == UNION {Orders(ids) : ids \in SUBSET {GetTrackId(Entry(e)).v : e \in Catalogue}}

\* one comparison request over the whole catalogue
Next ==
    \/ \E u1, u2 \in RequestUrls, init_ok \in BOOLEAN : Begin(u1, u2, init_ok, 1)
    \/ \E t \in Tasks, resp \in OwnerResponses(TrackLists) : OwnerAttempt(t, resp)
    \/ \E t \in Tasks : UuidLookup(t)
    \/ \E t \in Tasks, http \in HttpResponses, batch \in BatchResponses(LookupLists) :
          UuidCall(t, http, batch)
    \/ \E t \in Tasks : Collect(t)
    \/ ReturnError
    \/ \E order \in AllOrders : Compare(order)

Spec == Init /\ [][Next]_vars

\* ------------------------------------------- several requests, one after another
NextCache ==
    \/ \E u1, u2 \in {UrlUuid, UrlOwner}, init_ok \in BOOLEAN :
          Begin(u1, u2, init_ok, MaxRequests)
    \/ \E t \in Tasks, resp \in OwnerResponses(FewLists) : OwnerAttempt(t, resp)
    \/ \E t \in Tasks : UuidLookup(t)
    \/ \E t \in Tasks, http \in HttpResponses, batch \in BatchResponses(FewLists) :
          UuidCall(t, http, batch)
    \/ \E t \in Tasks : Collect(t)
    \/ ReturnError
    \/ \E order \in AllOrders : Compare(order)

SpecCache == Init /\ [][NextCache]_vars

\* ------------------------------------------------------ retry_on_error alone
RetryValues == {IntV(1), IntV(2)}
RetryExceptions == {Exc("ValueError", "e1"), Exc("TypeError", "e2")}

InitRetry ==
    /\ req = 0
    /\ pc = "idle"
    /\ url1 = <<>> /\ url2 = <<>>
    /\ playlist_info = [t \in Tasks |-> Unset]
    /\ tstate = [t \in Tasks |-> "none"]
    /\ calls = [t \in Tasks |-> 0]
    /\ sleeps = [t \in Tasks |-> <<>>]
    /\ fetched = [t \in Tasks |-> "unset"]
    /\ tracks_dict = [t \in Tasks |-> Unset]
    /\ texc = [t \in Tasks |-> Unset]
    /\ late = [t \in Tasks |-> FALSE]
    /\ issued = [t \in Tasks |-> FALSE]
    /\ early = FALSE
    /\ results = <<>>
    /\ pending = Unset
    /\ result = Unset
    /\ parse_cache = <<>>
    /\ uuid_cache = <<>>
    /\ oauth_token = NoneV
    /\ r_max \in 1..MaxN /\ r_delay \in 1..MaxDelay /\ r_attempt = 0
    /\ r_trace = <<>> /\ r_sleeps = <<>> /\ r_out = Unset
    /\ p_url = <<>> /\ p_results = <<>>

\* return func(*args, **kwargs)
RetryReturns(v) ==
    /\ r_out = Unset
    /\ r_attempt < r_max
    /\ r_trace' = Append(r_trace, Return(v))
    /\ r_out' = Return(v)
    /\ UNCHANGED <<r_max, r_delay, r_attempt, r_sleeps, mainVars, parseVars>>

\* the call raises: the except block, and return None once the loop is over
RetryRaises(e) ==
    /\ r_out = Unset
    /\ r_attempt < r_max
    /\ r_trace' = Append(r_trace, Raise(e))
    /\ IF IsLastAttempt(r_attempt, r_max)
       THEN /\ r_out' = Raise(e)
            /\ UNCHANGED <<r_attempt, r_sleeps>>
       ELSE /\ r_sleeps' = Append(r_sleeps, SleepTime(r_delay, r_attempt))
            /\ r_attempt' = r_attempt + 1
            /\ r_out' = IF r_attempt + 1 < r_max THEN Unset ELSE Return(NoneV)
    /\ UNCHANGED <<r_max, r_delay, mainVars, parseVars>>

NextRetry ==
    \/ \E v \in RetryValues : RetryReturns(v)
    \/ \E e \in RetryExceptions : RetryRaises(e)

SpecRetry == InitRetry /\ [][NextRetry]_vars

\* -------------------------------------------- parse_playlist_url_cached alone
InitParse ==
    /\ req = 0
    /\ pc = "idle"
    /\ url1 = <<>> /\ url2 = <<>>
    /\ playlist_info = [t \in Tasks |-> Unset]
    /\ tstate = [t \in Tasks |-> "none"]
    /\ calls = [t \in Tasks |-> 0]
    /\ sleeps = [t \in Tasks |-> <<>>]
    /\ fetched = [t \in Tasks |-> "unset"]
    /\ tracks_dict = [t \in Tasks |-> Unset]
    /\ texc = [t \in Tasks |-> Unset]
    /\ late = [t \in Tasks |-> FALSE]
    /\ issued = [t \in Tasks |-> FALSE]
    /\ early = FALSE
    /\ results = <<>>
    /\ pending = Unset
    /\ result = Unset
    /\ parse_cache = <<>>
    /\ uuid_cache = <<>>
    /\ oauth_token = NoneV
    /\ r_max = 0 /\ r_delay = 0 /\ r_attempt = 0
    /\ r_trace = <<>> /\ r_sleeps = <<>> /\ r_out = Unset
    /\ p_url \in SeqsUpTo(UrlTokens, MaxUrlLen) /\ p_results = <<>>

\* one call of parse_playlist_url_cached(p_url); two are made
ParseCall ==
    /\ Len(p_results) < 2
    /\ p_results' = Append(p_results, ParseResult(parse_cache, p_url))
    /\ parse_cache' = ParseCacheAfter(parse_cache, p_url)
    /\ UNCHANGED <<req, pc, url1, url2, playlist_info, tstate, calls, sleeps, fetched,
                   tracks_dict, texc, late, issued, early, results, pending, result,
                   uuid_cache, oauth_token, retryVars, p_url>>

NextParse == ParseCall

SpecParse == InitParse /\ [][NextParse]_vars

\* ==================================================================== claims

\* the sort of the common tracks meets a title that is no str
SortFails ==
    /\ Len(results) = 2
    /\ \E id \in CommonIds(tracks_dict[1], tracks_dict[2]) :
          LET info == GetTrackInfo(Entry(tracks_dict[results[1]][id]))
          IN  info # Absent /\ info.title.k # "str"
\* the request met a failure: no task was submitted, a task failed, the sort failed
SomethingFailed ==
    \/ \A t \in Tasks : tstate[t] = "none"
    \/ \E t \in Tasks : tstate[t] = "failed"
    \/ SortFails

\* C1: process_playlists_async never lets an exception reach its caller; after
\* a failure of the construction, of a parse, of a fetch (also one that failed
\* on every attempt), of the loop over the tracks or of the sort it returns
\* common_tracks = [] and an error that is a message, not None.
C1_NeverPropagates ==
    /\ pc # "propagated"
    /\ pc = "returned" =>
          /\ result.error # NoneV => result.error.k = "str" /\ result.common_tracks = <<>>
          /\ SomethingFailed => result.error # NoneV
C1_Witness ==
    /\ pc = "returned"
    /\ \E t \in Tasks : tstate[t] = "failed" /\ calls[t] = GetTracksMaxRetries
    /\ result.error # NoneV
    /\ result.common_tracks = <<>>

\* C2: a result without error holds exactly one TrackInfo for every identifier
\* that is a key of both dictionaries and whose get_track_info is not absent,
\* none for any other identifier, in non-decreasing order of lower-cased title.
C2_CommonTracksSorted ==
    (pc = "returned" /\ result.error = NoneV) =>
        LET ct == result.common_tracks
            src == tracks_dict[results[1]]
            present == {id \in DOMAIN tracks_dict[1] \cap DOMAIN tracks_dict[2] :
                            GetTrackInfo(Entry(src[id])) # Absent}
        IN  /\ \A id \in present : Cardinality({i \in 1..Len(ct) : ct[i].id = id}) = 1
            /\ \A i \in 1..Len(ct) : ct[i].id \in present
            /\ \A i \in 1..Len(ct) : ct[i] = GetTrackInfo(Entry(src[ct[i].id]))
            /\ \A i, j \in 1..Len(ct) :
                  i < j => ~StrLess(Lower(ct[j].title.v), Lower(ct[i].title.v))
C2_Witness ==
    /\ pc = "returned"
    /\ result.error = NoneV
    /\ Len(result.common_tracks) = 2
    /\ result.common_tracks[1].title = StrV(Apple)
    /\ result.common_tracks[2].title = StrV(Banana)

\* C3: in a comparison of two different URLs that ends without error, the entry
\* given to get_track_info for a common identifier is the one of the playlist
\* of url1, whichever fetch finished first.
C3_FirstUrlSuppliesEntry ==
    (pc = "returned" /\ result.error = NoneV /\ url1 # url2) =>
        \A id \in CommonIds(tracks_dict[1], tracks_dict[2]) :
            tracks_dict[results[1]][id] = tracks_dict[1][id]

\* the invocations of the wrapped callable that raised
RetryFailures == Cardinality({i \in 1..Len(r_trace) : r_trace[i].k = "raise"})

\* C4: retry_on_error(N, d) invokes the callable at most N times; a return ends
\* the loop with that value; after the k-th failure, k < N, it has slept d * k
\* and goes on; after the N-th failure it has not slept again and raises that
\* invocation's exception.
C4_RetryProtocol ==
    r_max > 0 =>
        /\ Len(r_trace) <= r_max
        /\ \A i \in 1..Len(r_trace) - 1 : r_trace[i].k = "raise"
        /\ Len(r_sleeps) = (IF RetryFailures < r_max THEN RetryFailures ELSE r_max - 1)
        /\ \A k \in 1..Len(r_sleeps) : r_sleeps[k] = r_delay * k
        /\ (Len(r_trace) > 0 /\ r_trace[Len(r_trace)].k = "return")
              => r_out = r_trace[Len(r_trace)]
        /\ RetryFailures = r_max => r_out = r_trace[r_max]
        /\ (RetryFailures = Len(r_trace) /\ RetryFailures < r_max) => r_out = Unset
C4_Witness ==
    /\ r_max = 3 /\ r_delay = 2
    /\ r_out.k = "raise"
    /\ Len(r_trace) = 3
    /\ r_sleeps = <<2, 4>>

\* C5, as the claim has it: every fetch failure, on either retrieval path, has
\* been through the three attempts of the retry policy when it ends the task.
C5_EveryFetchFailureRetried ==
    \A t \in Tasks :
        (tstate[t] = "failed" /\ texc[t].type = "ValueError")
            => calls[t] = GetTracksMaxRetries

\* C5, amended: a failure of get_tracks (a reference by owner) ends the task
\* after three invocations with sleeps of 1 and 2 between them; a failure of
\* get_tracks_by_uuid ends it after a single invocation and no sleep; either
\* way its message is the error of the result.
C5_OwnerFailuresRetried ==
    /\ \A t \in Tasks :
          (tstate[t] = "failed" /\ texc[t].type = "ValueError") =>
              IF playlist_info[t].type = "user_kind"
              THEN calls[t] = GetTracksMaxRetries
                   /\ sleeps[t] = <<GetTracksDelay, 2 * GetTracksDelay>>
              ELSE calls[t] = 1 /\ sleeps[t] = <<>>
    /\ (pc = "returned" /\ pending # Unset) =>
          /\ result.error = StrV(pending.msg)
          /\ \E t \in Tasks : tstate[t] = "failed" /\ texc[t] = pending
C5_Witness ==
    /\ pc = "returned"
    /\ pending # Unset
    /\ \E t \in Tasks :
          /\ tstate[t] = "failed" /\ texc[t] = pending
          /\ playlist_info[t].type = "user_kind"
          /\ calls[t] = 3
    /\ result.error = StrV(pending.msg)

\* C6: once get_tracks_by_uuid has stored the tracks of an identifier, a fetch
\* of that identifier that begins later, in this or a later request, misses
\* nothing and issues no HTTP GET; and a failed fetch stores no entry.
C6_MemoizedByUuid ==
    /\ \A t \in Tasks : late[t] => (tstate[t] # "miss" /\ ~issued[t])
    /\ \A t \in Tasks :
          (/\ tstate[t] = "failed"
           /\ playlist_info[t].type = "uuid"
           /\ \A u \in Tasks : tstate[u] = "done" => playlist_info[u] # playlist_info[t])
              => ~CacheHas(uuid_cache, UuidKey(t))

\* C7: both tasks are submitted, and process_playlists_async has its result
\* only when both have ended, also when one raised while the other was running.
C7_JoinsBothTasks ==
    /\ pc \in {"running", "raising"} => \A t \in Tasks : tstate[t] # "none"
    /\ (pc \in {"returned", "propagated"} /\ playlist_info[1] # Unset)
          => \A t \in Tasks : tstate[t] \in {"done", "failed"}
C7_Witness == pc = "returned" /\ early

\* C8: on the path by owner, get_tracks hands over a track sequence only when
\* the playlist has a track collection that is not empty.
C8_OwnerNeedsTracks ==
    \A t \in Tasks :
        (tstate[t] # "none" /\ playlist_info[t].type = "user_kind")
            => fetched[t] # "empty"

\* the shapes of a URL, read off the string from its first host
FirstHost(url) == CHOOSE i \in 1..Len(url) : url[i] = "H" /\ \A j \in 1..(i - 1) : url[j] # "H"
IsUuidUrl(url) ==
    /\ \E i \in 1..Len(url) : url[i] = "H"
    /\ LET i == FirstHost(url)
       IN  /\ i + 2 <= Len(url)
           /\ url[i + 1] = "SP"
           /\ \A k \in (i + 2)..Len(url) : UuidChar(url[k])
OwnerEnds(url) ==
    LET i == FirstHost(url)
    IN  {j \in (i + 2)..(Len(url) - 2) :
            /\ url[i + 1] = "SU"
            /\ \A k \in (i + 2)..j : UserChar(url[k])
            /\ url[j + 1] = "SP"
            /\ \A k \in (j + 2)..Len(url) : IsDigit(url[k])}
IsOwnerUrl(url) == (\E i \in 1..Len(url) : url[i] = "H") /\ OwnerEnds(url) # {}
ShapeOccurs(url) == UuidMatches(url) # {} \/ UserMatches(url) # {}

\* C9: a URL that is the host, /playlists/ and a token gives the uuid reference
\* of the token; one that is the host, /users/, an owner, /playlists/ and digits
\* gives the owner reference of that owner and those digits; a string in which
\* neither shape occurs gives the invalid-format error; a second call gives
\* what the first gave.
C9_ParseByShape ==
    Len(p_results) >= 1 =>
        /\ IsUuidUrl(p_url) =>
              p_results[1] = [type |-> "uuid",
                              uuid |-> SubSeq(p_url, FirstHost(p_url) + 2, Len(p_url))]
        /\ IsOwnerUrl(p_url) =>
              \A j \in OwnerEnds(p_url) :
                  p_results[1] = [type |-> "user_kind",
                                  user |-> SubSeq(p_url, FirstHost(p_url) + 2, j),
                                  kind |-> SubSeq(p_url, j + 2, Len(p_url))]
        /\ ~ShapeOccurs(p_url) => p_results[1] = InvalidFormat
        /\ Len(p_results) = 2 => p_results[2] = p_results[1]

\* an attribute that is not there or is None
IsAbsent(x) == x = Missing \/ x = NoneV
NoDisplayData(e) ==
    /\ IsAbsent(e.title) /\ IsAbsent(e.artists) /\ IsAbsent(e.artists_name)
    /\ IsAbsent(e.track)
          \/ (e.track.k = "obj" /\ IsAbsent(e.track.v.title) /\ IsAbsent(e.track.v.artists))

\* C10: a common entry that has an identifier and neither title nor artists, of
\* its own or of its nested track, gets the fallback title and the fallback
\* artists, is in common_tracks, and the result has no error.
C10_FallbackForBareEntry ==
    (pc = "returned" /\ Len(results) = 2) =>
        \A id \in CommonIds(tracks_dict[1], tracks_dict[2]) :
            LET e == Entry(tracks_dict[results[1]][id])
                info == GetTrackInfo(e)
            IN  (GetTrackId(e) # Absent /\ NoDisplayData(FetchFull(e))) =>
                    /\ info # Absent
                    /\ info.title = StrV(UnknownTrack)
                    /\ info.artists = UnknownArtist
                    /\ result.error = NoneV
                    /\ \E i \in 1..Len(result.common_tracks) :
                          result.common_tracks[i] = info
====
